---- MODULE Spec2Model ----
(***************************************************************************)
(* Model of the evaluation-result orchestration and persistence subsystem  *)
(* of psg-multilabel: MetricsPipelineRepository (the result store and its  *)
(* CSV file), MetricsPipeline.run (the models x datasets loop) and the     *)
(* DatasetsLoader catalog, from src/metrics/pipeline.py and src/main.py.   *)
(*                                                                         *)
(* Metric values are fixed-point numbers in units of 10^-6.                *)
(* A path is the sequence of its characters.                               *)
(* A Python dict is the sequence of its (key, value) entries in insertion  *)
(* order, keys unique.                                                     *)
(***************************************************************************)
EXTENDS Integers, Sequences, FiniteSets, TLC

\* ------------------------------------------------------------------ bounds
MaxRuns == 2
MaxOps == 2

\* ------------------------------------------------------- inputs of the model
ModelNames == {"A", "B"}
DatasetNames == {"D1", "D2"}

\* the key orders of the `models` dict handed to MetricsPipeline
ModelConfigs == {<<"A", "B">>, <<"B">>, <<>>}
\* the `dataset_names` lists handed to the DatasetsLoader
DatasetConfigs == {<<"D1", "D2">>, <<"D1", "NoSuch">>, <<>>}

CsvPath == <<"r", ".", "c", "s", "v">>
TxtPath == <<"r", ".", "t", "x", "t">>
BarePath == <<"c", "s", "v">>
BakPath == <<"r", ".", "c", "s", "v", "~">>
Paths == {CsvPath, TxtPath, BarePath, BakPath}

\* what the Evaluator may return: per metric, the fold-wise mean and std
Metrics == {"accuracy", "hamming_loss", "f1"}
R1 == [accuracy |-> [mean |-> 812346, std |-> 12351],
       hamming_loss |-> [mean |-> 98765, std |-> 4321],
       f1 |-> [mean |-> 750050, std |-> 249]]
R2 == [accuracy |-> [mean |-> 433350, std |-> 99],
       hamming_loss |-> [mean |-> 123449, std |-> 77777],
       f1 |-> [mean |-> 1000000, std |-> 0]]
Results == {R1, R2}
\* what the Evaluator returns in the runs explored
EvaluatorResults == {R1}
\* what a client hands to add_result
ClientResults == {R2}

Pair(m, d) == <<m, d>>

\* ------------------------------------------------------------------- state
VARIABLES
    proc,                    \* "down": no Repository object; "up": constructed
    csv_file_path,           \* MetricsPipelineRepository.csv_file_path
    raw_evaluation_results,  \* MetricsPipelineRepository.raw_evaluation_results
    file,                    \* the persisted CSV file: [exists, rows]
    models,                  \* MetricsPipeline.models (keys, in order)
    loaded_datasets,         \* DatasetsLoader.loaded_datasets (keys, in order)
    pc,                      \* position of run: "idle", "loop", "done", "aborted"
    mi, di,                  \* the loop positions of run
    evaluation_index,        \* run's progress counter
    err,                     \* what the last operation raised, or "none"
    warned,                  \* the last operation logged the missing-file warning
    described,               \* the rows describe_dict returned last
    lastOp,                  \* the operation performed last
    prevOp,                  \* the operation performed before it
    runFile0,                \* the file when the current run was called
    runStore0,               \* the store after the load step of the current run
    evaluated,               \* pairs the Evaluator was invoked on in this run
    computed,                \* pairs evaluated successfully in this run
    evalCalls,               \* Evaluator invocations in this run
    saves,                   \* save_to_file calls in this run
    nRuns, nOps,             \* counters bounding the exploration
    removed,                 \* the pairs the last save_to_file took out of the file
    catalog,                 \* the DatasetsLoader objects under study
    writers,                 \* the concurrent pipelines, each with its Repository
    lastSaver                \* the pipeline that wrote the file last

vars == <<proc, csv_file_path, raw_evaluation_results, file, models,
          loaded_datasets, pc, mi, di, evaluation_index, err, warned,
          described, lastOp, prevOp, runFile0, runStore0, evaluated, computed,
          evalCalls, saves, nRuns, nOps, removed, catalog, writers,
          lastSaver>>

\* what the sequential pipeline never touches
otherVars == <<catalog, writers, lastSaver>>

\* ------------------------------------------------------ the dict-of-dicts
EmptyStore == <<>>
NoFile == [exists |-> FALSE, rows |-> <<>>]

ModelKeys(S) == {S[i].model : i \in 1..Len(S)}
DatasetKeys(inner) == {inner[j].dataset : j \in 1..Len(inner)}

ModelIndex(S, m) == CHOOSE i \in 1..Len(S) : S[i].model = m
DatasetIndex(inner, d) == CHOOSE j \in 1..Len(inner) : inner[j].dataset = d

\* result_already_exists looking the dataset name up among the model names
ResultAlreadyExists_WrongKey(S, m, d) ==
    IF m \notin ModelKeys(S) THEN FALSE
    ELSE IF d \notin ModelKeys(S) THEN FALSE
    ELSE TRUE

\* result_already_exists(model_name, dataset_name)
ResultAlreadyExists(S, m, d) ==
    IF m \notin ModelKeys(S) THEN FALSE
    ELSE IF d \notin DatasetKeys(S[ModelIndex(S, m)].results) THEN FALSE
    ELSE TRUE

\* add_result without its membership guard: the model's dict is always reset
AddResultTo_ResetsModel(S, m, d, r) ==
    IF m \notin {S[i].model : i \in 1..Len(S)}
    THEN Append(S, [model |-> m,
                    results |-> <<[dataset |-> d, result |-> r]>>])
    ELSE LET i == CHOOSE k \in 1..Len(S) : S[k].model = m
         IN [S EXCEPT ![i].results = <<[dataset |-> d, result |-> r]>>]

\* add_result(model_name, dataset_name, result)
AddResultTo(S, m, d, r) ==
    LET S1 == IF m \notin ModelKeys(S)
              THEN Append(S, [model |-> m, results |-> <<>>])
              ELSE S
        i == ModelIndex(S1, m)
        inner == S1[i].results
        inner1 == IF d \in DatasetKeys(inner)
                  THEN [inner EXCEPT ![DatasetIndex(inner, d)].result = r]
                  ELSE Append(inner, [dataset |-> d, result |-> r])
    IN [S1 EXCEPT ![i].results = inner1]

\* the (model, dataset) positions of a store: entry j of the dict of entry i
Positions(S) ==
    UNION {{<<i, j>> : j \in 1..Len(S[i].results)} : i \in 1..Len(S)}
PairAt(S, p) == Pair(S[p[1]].model, S[p[1]].results[p[2]].dataset)
PairsOf(S) == {PairAt(S, p) : p \in Positions(S)}
\* raw_evaluation_results[m][d]
ValueOf(S, m, d) ==
    LET inner == S[ModelIndex(S, m)].results
    IN inner[DatasetIndex(inner, d)].result
\* how many entries of the store carry the pair (m, d)
Occurrences(S, m, d) ==
    Cardinality({p \in Positions(S) : PairAt(S, p) = Pair(m, d)})

\* --------------------------------------------------------- the flat table
\* result.describe_json(): the flat dict of one result
DescribeJson(r) ==
    [accuracy |-> r.accuracy.mean, accuracy_std |-> r.accuracy.std,
     hamming_loss |-> r.hamming_loss.mean,
     hamming_loss_std |-> r.hamming_loss.std,
     f1 |-> r.f1.mean, f1_std |-> r.f1.std]

\* one row of the table: the two identifiers and the metric columns
RowOf(m, d, r) ==
    LET j == DescribeJson(r)
    IN [model |-> m, dataset |-> d,
        accuracy |-> j.accuracy, accuracy_std |-> j.accuracy_std,
        hamming_loss |-> j.hamming_loss,
        hamming_loss_std |-> j.hamming_loss_std,
        f1 |-> j.f1, f1_std |-> j.f1_std]

\* the result a row carries
ResultOfRow(row) ==
    [accuracy |-> [mean |-> row.accuracy, std |-> row.accuracy_std],
     hamming_loss |-> [mean |-> row.hamming_loss,
                       std |-> row.hamming_loss_std],
     f1 |-> [mean |-> row.f1, std |-> row.f1_std]]

RECURSIVE InnerRows(_, _)
InnerRows(m, inner) ==
    IF inner = <<>> THEN <<>>
    ELSE <<RowOf(m, Head(inner).dataset, Head(inner).result)>>
         \o InnerRows(m, Tail(inner))

\* evaluation_results_to_flat_table: one row per (model, dataset) pair
RECURSIVE evaluation_results_to_flat_table(_)
evaluation_results_to_flat_table(S) ==
    IF S = <<>> THEN <<>>
    ELSE InnerRows(Head(S).model, Head(S).results)
         \o evaluation_results_to_flat_table(Tail(S))

\* flat_table_to_evaluation_results: the nested mapping of a table
RECURSIVE RowsInto(_, _)
RowsInto(S, rows) ==
    IF rows = <<>> THEN S
    ELSE RowsInto(AddResultTo(S, Head(rows).model, Head(rows).dataset,
                              ResultOfRow(Head(rows))),
                  Tail(rows))
flat_table_to_evaluation_results(rows) == RowsInto(EmptyStore, rows)

\* ------------------------------------------------------------ Repository
\* str.endswith
EndsWith(s, suffix) ==
    /\ Len(s) >= Len(suffix)
    /\ SubSeq(s, Len(s) - Len(suffix) + 1, Len(s)) = suffix

CsvSuffix == <<".", "c", "s", "v">>

\* load_from_file without the os.path.exists test: read_csv raises
LoadFromFile_NoExistsCheck(path, f, S) ==
    IF ~EndsWith(path, CsvSuffix)
    THEN [err |-> "config", warned |-> FALSE, store |-> S]
    ELSE IF ~f.exists
    THEN [err |-> "io", warned |-> FALSE, store |-> S]
    ELSE [err |-> "none", warned |-> FALSE,
          store |-> flat_table_to_evaluation_results(f.rows)]

\* load_from_file emptying the store when the file is missing
LoadFromFile_ResetOnMissing(path, f, S) ==
    IF ~EndsWith(path, CsvSuffix)
    THEN [err |-> "config", warned |-> FALSE, store |-> S]
    ELSE IF ~f.exists
    THEN [err |-> "none", warned |-> TRUE, store |-> EmptyStore]
    ELSE [err |-> "none", warned |-> FALSE,
          store |-> flat_table_to_evaluation_results(f.rows)]

\* load_from_file testing the existence before the extension
LoadFromFile_ExistsFirst(path, f, S) ==
    IF ~f.exists
    THEN [err |-> "none", warned |-> TRUE, store |-> S]
    ELSE IF ~EndsWith(path, CsvSuffix)
    THEN [err |-> "config", warned |-> FALSE, store |-> S]
    ELSE [err |-> "none", warned |-> FALSE,
          store |-> flat_table_to_evaluation_results(f.rows)]

\* load_from_file merging the table of the file into the store it has
LoadFromFile_Merge(path, f, S) ==
    IF ~EndsWith(path, CsvSuffix)
    THEN [err |-> "config", warned |-> FALSE, store |-> S]
    ELSE IF ~f.exists
    THEN [err |-> "none", warned |-> TRUE, store |-> S]
    ELSE [err |-> "none", warned |-> FALSE, store |-> RowsInto(S, f.rows)]

\* load_from_file: what it raises, whether it warns, the store afterwards
LoadFromFile(path, f, S) ==
    IF ~EndsWith(path, CsvSuffix)
    THEN [err |-> "config", warned |-> FALSE, store |-> S]
    ELSE IF ~f.exists
    THEN [err |-> "none", warned |-> TRUE, store |-> S]
    ELSE [err |-> "none", warned |-> FALSE,
          store |-> flat_table_to_evaluation_results(f.rows)]

\* save_to_file appending to the file instead of rewriting it
SaveToFile_Append(S) ==
    [exists |-> TRUE,
     rows |-> file.rows \o evaluation_results_to_flat_table(S)]

\* save_to_file updating the file in place: the rows of the store, and the
\* rows of the file whose pair the store does not hold
SaveToFile_KeepsOtherRows(S) ==
    [exists |-> TRUE,
     rows |-> evaluation_results_to_flat_table(S) \o
              SelectSeq(file.rows,
                        LAMBDA row :
                            Pair(row.model, row.dataset) \notin PairsOf(S))]

\* save_to_file: the file afterwards
SaveToFile(S) ==
    [exists |-> TRUE, rows |-> evaluation_results_to_flat_table(S)]

\* round(x, 4) on a value in units of 10^-6: the nearest multiple of 10^-4
Round4(x) ==
    LET q == x \div 100
        rem == x % 100
    IN IF rem < 50 THEN q * 100
       ELSE IF rem > 50 THEN (q + 1) * 100
       ELSE IF q % 2 = 0 THEN q * 100 ELSE (q + 1) * 100

DescribeRow(m, d, r) ==
    LET j == DescribeJson(r)
    IN [model |-> m, dataset |-> d,
        accuracy |-> Round4(j.accuracy),
        accuracy_std |-> Round4(j.accuracy_std),
        hamming_loss |-> Round4(j.hamming_loss),
        hamming_loss_std |-> Round4(j.hamming_loss_std),
        f1 |-> Round4(j.f1), f1_std |-> Round4(j.f1_std)]

RECURSIVE DescribeInner(_, _)
DescribeInner(m, inner) ==
    IF inner = <<>> THEN <<>>
    ELSE <<DescribeRow(m, Head(inner).dataset, Head(inner).result)>>
         \o DescribeInner(m, Tail(inner))

\* describe_dict: the presentation rows
RECURSIVE describe_dict(_)
describe_dict(S) ==
    IF S = <<>> THEN <<>>
    ELSE DescribeInner(Head(S).model, Head(S).results)
         \o describe_dict(Tail(S))

\* the pipelines run side by side on the same file
Writers == {1, 2}

\* a pipeline that was not started
IdleWriter ==
    [pc |-> "idle", store |-> EmptyStore, k |-> 1, saved |-> {}, runs |-> 0]

\* the (model, dataset) pairs of the rows of a file
FilePairs(f) == {Pair(f.rows[k].model, f.rows[k].dataset) : k \in 1..Len(f.rows)}

\* ------------------------------------------------------------------ Init
Init ==
    /\ proc = "down"
    /\ csv_file_path \in Paths
    /\ raw_evaluation_results = EmptyStore
    /\ file = NoFile
    /\ models = <<>>
    /\ loaded_datasets = <<>>
    /\ pc = "idle"
    /\ mi = 1
    /\ di = 1
    /\ evaluation_index = 0
    /\ err = "none"
    /\ warned = FALSE
    /\ described = <<>>
    /\ lastOp = "none"
    /\ prevOp = "none"
    /\ runFile0 = NoFile
    /\ runStore0 = EmptyStore
    /\ evaluated = {}
    /\ computed = {}
    /\ evalCalls = 0
    /\ saves = 0
    /\ nRuns = 0
    /\ nOps = 0
    /\ removed = {}
    /\ catalog = [names |-> <<>>, built |-> FALSE]
    /\ writers = [w \in Writers |-> IdleWriter]
    /\ lastSaver = 0

\* outside run its locals do not exist, nor the pipeline and the loader it
\* was called on
NoRun ==
    /\ models' = <<>>
    /\ loaded_datasets' = <<>>
    /\ mi' = 1
    /\ di' = 1
    /\ evaluation_index' = 0
    /\ runFile0' = NoFile
    /\ runStore0' = EmptyStore
    /\ evaluated' = {}
    /\ computed' = {}
    /\ evalCalls' = 0
    /\ saves' = 0

\* ------------------------------------------------- Repository operations
\* MetricsPipelineRepository.__init__(csv_file_path, dataset)
Construct(withDataset) ==
    /\ proc = "down"
    /\ LET L == IF withDataset
                THEN [err |-> "none", warned |-> FALSE, store |-> EmptyStore]
                ELSE LoadFromFile(csv_file_path, file, EmptyStore)
       IN /\ proc' = IF L.err = "none" THEN "up" ELSE "down"
          /\ raw_evaluation_results' =
                 IF L.err = "none" THEN L.store ELSE EmptyStore
          /\ err' = L.err
          /\ warned' = L.warned
    /\ pc' = "idle"
    /\ lastOp' = IF withDataset THEN "construct_dataset" ELSE "construct"
    /\ prevOp' = lastOp
    /\ described' = <<>>
    /\ NoRun
    /\ UNCHANGED <<csv_file_path, file, nRuns, nOps>>
    /\ removed' = {}
    /\ UNCHANGED otherVars

Callable ==
    /\ proc = "up"
    /\ pc # "loop"

\* repository.load_from_file()
OpLoadFromFile ==
    /\ Callable
    /\ nOps < MaxOps
    /\ LET L == LoadFromFile(csv_file_path, file, raw_evaluation_results)
       IN /\ raw_evaluation_results' = L.store
          /\ err' = L.err
          /\ warned' = L.warned
    /\ pc' = "idle"
    /\ lastOp' = "load_from_file"
    /\ prevOp' = lastOp
    /\ nOps' = nOps + 1
    /\ described' = <<>>
    /\ NoRun
    /\ UNCHANGED <<proc, csv_file_path, file, nRuns>>
    /\ removed' = {}
    /\ UNCHANGED otherVars

\* repository.save_to_file()
OpSaveToFile ==
    /\ Callable
    /\ nOps < MaxOps
    /\ file' = SaveToFile(raw_evaluation_results)
    /\ err' = "none"
    /\ warned' = FALSE
    /\ pc' = "idle"
    /\ lastOp' = "save_to_file"
    /\ prevOp' = lastOp
    /\ nOps' = nOps + 1
    /\ described' = <<>>
    /\ NoRun
    /\ UNCHANGED <<proc, csv_file_path, raw_evaluation_results, nRuns>>
    /\ removed' = FilePairs(file) \ FilePairs(file')
    /\ UNCHANGED otherVars

\* repository.add_result(m, d, r)
OpAddResult(m, d, r) ==
    /\ Callable
    /\ nOps < MaxOps
    /\ raw_evaluation_results' = AddResultTo(raw_evaluation_results, m, d, r)
    /\ err' = "none"
    /\ warned' = FALSE
    /\ pc' = "idle"
    /\ lastOp' = "add_result"
    /\ prevOp' = lastOp
    /\ nOps' = nOps + 1
    /\ described' = <<>>
    /\ NoRun
    /\ UNCHANGED <<proc, csv_file_path, file, nRuns>>
    /\ removed' = {}
    /\ UNCHANGED otherVars

\* a store with every metric rounded
RoundedStore(S) ==
    [i \in 1..Len(S) |->
        [model |-> S[i].model,
         results |->
            [j \in 1..Len(S[i].results) |->
                [dataset |-> S[i].results[j].dataset,
                 result |->
                    [c \in Metrics |->
                        [mean |-> Round4(S[i].results[j].result[c].mean),
                         std |-> Round4(S[i].results[j].result[c].std)]]]]]]

\* describe_dict rounding the stored results in place
OpDescribe_RoundsInPlace ==
    /\ Callable
    /\ nOps < MaxOps
    /\ described' = describe_dict(raw_evaluation_results)
    /\ raw_evaluation_results' = RoundedStore(raw_evaluation_results)
    /\ err' = "none"
    /\ warned' = FALSE
    /\ pc' = "idle"
    /\ lastOp' = "describe_dict"
    /\ prevOp' = lastOp
    /\ nOps' = nOps + 1
    /\ NoRun
    /\ UNCHANGED <<proc, csv_file_path, file, nRuns>>
    /\ removed' = {}
    /\ UNCHANGED otherVars

\* repository.describe_dict() (describe_log logs the same rows)
OpDescribe ==
    /\ Callable
    /\ nOps < MaxOps
    /\ described' = describe_dict(raw_evaluation_results)
    /\ err' = "none"
    /\ warned' = FALSE
    /\ pc' = "idle"
    /\ lastOp' = "describe_dict"
    /\ prevOp' = lastOp
    /\ nOps' = nOps + 1
    /\ NoRun
    /\ UNCHANGED <<proc, csv_file_path, raw_evaluation_results, file,
                   nRuns>>
    /\ removed' = {}
    /\ UNCHANGED otherVars

\* the process ends (normally, on the propagated exception, or killed):
\* the Repository object is gone, the file stays
Exit ==
    /\ proc = "up"
    /\ proc' = "down"
    /\ raw_evaluation_results' = EmptyStore
    /\ pc' = "idle"
    /\ err' = "none"
    /\ warned' = FALSE
    /\ lastOp' = "exit"
    /\ prevOp' = lastOp
    /\ described' = <<>>
    /\ NoRun
    /\ UNCHANGED <<csv_file_path, file, nRuns, nOps>>
    /\ removed' = {}
    /\ UNCHANGED otherVars

\* ----------------------------------------------------- MetricsPipeline.run
CurrentModel == models[mi]
CurrentDataset == loaded_datasets[di]

RECURSIVE Resolved(_, _)
\* datasets_loader.load: the datasets recorded from ds[k] on, up to the first
\* one the Dataset Source does not know, where load raises
Resolved(ds, k) ==
    IF k > Len(ds) \/ ds[k] \notin DatasetNames THEN <<>>
    ELSE <<ds[k]>> \o Resolved(ds, k + 1)

\* run without the guard of list_datasets: an empty catalog is iterated
RunStart_NoCatalogGuard(ms, ds) ==
    /\ Callable
    /\ nRuns < MaxRuns
    /\ nRuns' = nRuns + 1
    /\ models' = ms
    /\ runFile0' = file
    /\ evaluated' = {}
    /\ computed' = {}
    /\ evalCalls' = 0
    /\ saves' = 0
    /\ evaluation_index' = 0
    /\ mi' = 1
    /\ di' = 1
    /\ lastOp' = "run_start"
    /\ prevOp' = lastOp
    /\ LET L == LoadFromFile(csv_file_path, file, raw_evaluation_results)
       IN /\ raw_evaluation_results' = L.store
          /\ runStore0' = L.store
          /\ warned' = L.warned
          /\ IF L.err # "none"
             THEN /\ err' = L.err
                  /\ pc' = "aborted"
                  /\ UNCHANGED loaded_datasets
             ELSE /\ loaded_datasets' = Resolved(ds, 1)
                  /\ IF Len(Resolved(ds, 1)) < Len(ds)
                     THEN err' = "not_found" /\ pc' = "aborted"
                     ELSE /\ err' = "none"
                          /\ pc' = IF Len(ms) = 0 THEN "done" ELSE "loop"
    /\ described' = <<>>
    /\ UNCHANGED <<proc, csv_file_path, file, nOps>>
    /\ removed' = {}
    /\ UNCHANGED otherVars

\* run without its load step: the loop starts from the store as it is
RunStart_NoLoad(ms, ds) ==
    /\ Callable
    /\ nRuns < MaxRuns
    /\ nRuns' = nRuns + 1
    /\ models' = ms
    /\ runFile0' = file
    /\ evaluated' = {}
    /\ computed' = {}
    /\ evalCalls' = 0
    /\ saves' = 0
    /\ evaluation_index' = 0
    /\ mi' = 1
    /\ di' = 1
    /\ lastOp' = "run_start"
    /\ prevOp' = lastOp
    /\ LET L == [err |-> "none", warned |-> FALSE,
                 store |-> raw_evaluation_results]
       IN /\ raw_evaluation_results' = L.store
          /\ runStore0' = L.store
          /\ warned' = L.warned
          /\ IF L.err # "none"
             THEN /\ err' = L.err
                  /\ pc' = "aborted"
                  /\ UNCHANGED loaded_datasets
             ELSE /\ loaded_datasets' = Resolved(ds, 1)
                  /\ IF Len(Resolved(ds, 1)) < Len(ds) \/ Len(ds) = 0
                     THEN err' = "not_found" /\ pc' = "aborted"
                     ELSE /\ err' = "none"
                          /\ pc' = IF Len(ms) = 0 THEN "done" ELSE "loop"
    /\ described' = <<>>
    /\ UNCHANGED <<proc, csv_file_path, file, nOps>>
    /\ removed' = {}
    /\ UNCHANGED otherVars

\* lines 29-43: load_from_file, datasets_loader.load, list_datasets
RunStart(ms, ds) ==
    /\ Callable
    /\ nRuns < MaxRuns
    /\ nRuns' = nRuns + 1
    /\ models' = ms
    /\ runFile0' = file
    /\ evaluated' = {}
    /\ computed' = {}
    /\ evalCalls' = 0
    /\ saves' = 0
    /\ evaluation_index' = 0
    /\ mi' = 1
    /\ di' = 1
    /\ lastOp' = "run_start"
    /\ prevOp' = lastOp
    /\ LET L == LoadFromFile(csv_file_path, file, raw_evaluation_results)
       IN /\ raw_evaluation_results' = L.store
          /\ runStore0' = L.store
          /\ warned' = L.warned
          /\ IF L.err # "none"
             THEN /\ err' = L.err
                  /\ pc' = "aborted"
                  /\ UNCHANGED loaded_datasets
             ELSE /\ loaded_datasets' = Resolved(ds, 1)
                  /\ IF Len(Resolved(ds, 1)) < Len(ds) \/ Len(ds) = 0
                     THEN err' = "not_found" /\ pc' = "aborted"
                     ELSE /\ err' = "none"
                          /\ pc' = IF Len(ms) = 0 THEN "done" ELSE "loop"
    /\ described' = <<>>
    /\ UNCHANGED <<proc, csv_file_path, file, nOps>>
    /\ removed' = {}
    /\ UNCHANGED otherVars

\* the loop over the datasets without the loop over the models around it
Advance_FirstModelOnly ==
    IF di < Len(loaded_datasets)
    THEN mi' = mi /\ di' = di + 1 /\ pc' = "loop"
    ELSE mi' = mi /\ di' = di /\ pc' = "done"

\* the loop moves to the next dataset, then to the next model
Advance ==
    IF di < Len(loaded_datasets)
    THEN mi' = mi /\ di' = di + 1 /\ pc' = "loop"
    ELSE IF mi < Len(models)
    THEN mi' = mi + 1 /\ di' = 1 /\ pc' = "loop"
    ELSE mi' = mi /\ di' = di /\ pc' = "done"

\* lines 60-62: the pair exists, skip it
RunSkip ==
    /\ proc = "up"
    /\ pc = "loop"
    /\ ResultAlreadyExists(raw_evaluation_results, CurrentModel,
                           CurrentDataset)
    /\ evaluation_index' = evaluation_index + 1
    /\ Advance
    /\ err' = "none"
    /\ warned' = FALSE
    /\ lastOp' = "run_skip"
    /\ prevOp' = lastOp
    /\ UNCHANGED <<proc, csv_file_path, raw_evaluation_results, file, models,
                   loaded_datasets, described, runFile0, runStore0,
                   evaluated, computed, evalCalls, saves, nRuns, nOps>>
    /\ removed' = {}
    /\ UNCHANGED otherVars

\* the loop body without its save_to_file call
RunEvaluate_NoSave(r) ==
    /\ proc = "up"
    /\ pc = "loop"
    /\ ~ResultAlreadyExists(raw_evaluation_results, CurrentModel,
                            CurrentDataset)
    /\ evaluation_index' = evaluation_index + 1
    /\ evalCalls' = evalCalls + 1
    /\ evaluated' = evaluated \cup {Pair(CurrentModel, CurrentDataset)}
    /\ computed' = computed \cup {Pair(CurrentModel, CurrentDataset)}
    /\ raw_evaluation_results' =
           AddResultTo(raw_evaluation_results, CurrentModel,
                       CurrentDataset, r)
    /\ Advance
    /\ err' = "none"
    /\ warned' = FALSE
    /\ lastOp' = "run_evaluate"
    /\ prevOp' = lastOp
    /\ UNCHANGED <<proc, csv_file_path, file, saves, models, loaded_datasets,
                   described, runFile0, runStore0, nRuns, nOps>>
    /\ removed' = {}
    /\ UNCHANGED otherVars

\* the loop body saving before it registers the result
RunEvaluate_SaveBeforeAdd(r) ==
    /\ proc = "up"
    /\ pc = "loop"
    /\ ~ResultAlreadyExists(raw_evaluation_results, CurrentModel,
                            CurrentDataset)
    /\ evaluation_index' = evaluation_index + 1
    /\ evalCalls' = evalCalls + 1
    /\ evaluated' = evaluated \cup {Pair(CurrentModel, CurrentDataset)}
    /\ computed' = computed \cup {Pair(CurrentModel, CurrentDataset)}
    /\ raw_evaluation_results' =
           AddResultTo(raw_evaluation_results, CurrentModel,
                       CurrentDataset, r)
    /\ file' = SaveToFile(raw_evaluation_results)
    /\ saves' = saves + 1
    /\ Advance
    /\ err' = "none"
    /\ warned' = FALSE
    /\ lastOp' = "run_evaluate"
    /\ prevOp' = lastOp
    /\ UNCHANGED <<proc, csv_file_path, models, loaded_datasets, described,
                   runFile0, runStore0, nRuns, nOps>>
    /\ removed' = FilePairs(file) \ FilePairs(file')
    /\ UNCHANGED otherVars

\* lines 64-68: the Evaluator returns r; add_result, save_to_file
RunEvaluate(r) ==
    /\ proc = "up"
    /\ pc = "loop"
    /\ ~ResultAlreadyExists(raw_evaluation_results, CurrentModel,
                            CurrentDataset)
    /\ evaluation_index' = evaluation_index + 1
    /\ evalCalls' = evalCalls + 1
    /\ evaluated' = evaluated \cup {Pair(CurrentModel, CurrentDataset)}
    /\ computed' = computed \cup {Pair(CurrentModel, CurrentDataset)}
    /\ raw_evaluation_results' =
           AddResultTo(raw_evaluation_results, CurrentModel,
                       CurrentDataset, r)
    /\ file' = SaveToFile(raw_evaluation_results')
    /\ saves' = saves + 1
    /\ Advance
    /\ err' = "none"
    /\ warned' = FALSE
    /\ lastOp' = "run_evaluate"
    /\ prevOp' = lastOp
    /\ UNCHANGED <<proc, csv_file_path, models, loaded_datasets, described,
                   runFile0, runStore0, nRuns, nOps>>
    /\ removed' = FilePairs(file) \ FilePairs(file')
    /\ UNCHANGED otherVars

\* the loop body registering the pair before the Evaluator has returned
RunEvaluateFails_AddsFirst ==
    /\ proc = "up"
    /\ pc = "loop"
    /\ ~ResultAlreadyExists(raw_evaluation_results, CurrentModel,
                            CurrentDataset)
    /\ evaluation_index' = evaluation_index + 1
    /\ evalCalls' = evalCalls + 1
    /\ evaluated' = evaluated \cup {Pair(CurrentModel, CurrentDataset)}
    /\ raw_evaluation_results' =
           AddResultTo(raw_evaluation_results, CurrentModel,
                       CurrentDataset, R1)
    /\ pc' = "aborted"
    /\ err' = "execution"
    /\ warned' = FALSE
    /\ lastOp' = "run_evaluate_fails"
    /\ prevOp' = lastOp
    /\ UNCHANGED <<proc, csv_file_path, file, models, loaded_datasets, mi,
                   di, described, runFile0, runStore0, computed, saves,
                   nRuns, nOps>>
    /\ removed' = {}
    /\ UNCHANGED otherVars

\* line 64: the Evaluator raises; the exception leaves run
RunEvaluateFails ==
    /\ proc = "up"
    /\ pc = "loop"
    /\ ~ResultAlreadyExists(raw_evaluation_results, CurrentModel,
                            CurrentDataset)
    /\ evaluation_index' = evaluation_index + 1
    /\ evalCalls' = evalCalls + 1
    /\ evaluated' = evaluated \cup {Pair(CurrentModel, CurrentDataset)}
    /\ pc' = "aborted"
    /\ err' = "execution"
    /\ warned' = FALSE
    /\ lastOp' = "run_evaluate_fails"
    /\ prevOp' = lastOp
    /\ UNCHANGED <<proc, csv_file_path, raw_evaluation_results, file, models,
                   loaded_datasets, mi, di, described, runFile0, runStore0,
                   computed, saves, nRuns, nOps>>
    /\ removed' = {}
    /\ UNCHANGED otherVars

\* ------------------------------------------------------------------- Next
Next ==
    \/ \E withDataset \in BOOLEAN : Construct(withDataset)
    \/ OpLoadFromFile
    \/ OpSaveToFile
    \/ \E m \in ModelNames, d \in DatasetNames, r \in ClientResults :
           OpAddResult(m, d, r)
    \/ OpDescribe
    \/ Exit
    \/ \E ms \in ModelConfigs, ds \in DatasetConfigs : RunStart(ms, ds)
    \/ RunSkip
    \/ \E r \in EvaluatorResults : RunEvaluate(r)
    \/ RunEvaluateFails

Spec == Init /\ [][Next]_vars

\* ------------------------------------------------- observations for claims
\* the cross product the current run iterates
Cross == {Pair(models[i], loaded_datasets[j]) :
              i \in 1..Len(models), j \in 1..Len(loaded_datasets)}

InRun == pc \in {"loop", "done", "aborted"}

\* the pairs of the cross product the loop has passed: those before the
\* position (mi, di), all of them once the loop is over
Visited ==
    IF pc = "done" THEN Cross
    ELSE {Pair(models[i], loaded_datasets[j]) :
              <<i, j>> \in {ij \in (1..Len(models)) \X (1..Len(loaded_datasets)) :
                              \/ ij[1] < mi
                              \/ ij[1] = mi /\ ij[2] < di}}

EvaluatorFailed == pc = "aborted" /\ err = "execution"

\* C1: the Evaluator is never invoked for a pair that is already in the
\* store: no pair that was in the persisted file when the run was called, and
\* no pair that was in the store after the run's load step, is evaluated by
\* the run, and no pair is evaluated twice by one run; this holds for every
\* run of every process over the same file.
C1_NeverRecomputed ==
    InRun =>
        /\ evaluated \cap FilePairs(runFile0) = {}
        /\ evaluated \cap PairsOf(runStore0) = {}
        /\ evalCalls = Cardinality(evaluated)

\* a later run found pairs in the file, skipped them and evaluated others
C1_Witness ==
    /\ pc = "done"
    /\ nRuns >= 2
    /\ FilePairs(runFile0) # {}
    /\ FilePairs(runFile0) \cap Cross # {}
    /\ evaluated # {}

\* C2: a run that starts from an empty store and ends without a failure
\* over M models and D datasets invokes the Evaluator M*D times, saves M*D
\* times and leaves M*D entries in the store; in every run the number of
\* saves is the number of pairs that were absent from the store at its start
\* and were evaluated successfully, each of them being in the file as soon
\* as it is computed.
C2_OneSavePerNewPair ==
    InRun =>
        /\ saves = Cardinality(computed \ PairsOf(runStore0))
        /\ computed \cap PairsOf(runStore0) = {}
        /\ computed \subseteq FilePairs(file)
        /\ (pc = "done" /\ runStore0 = EmptyStore) =>
              /\ evalCalls = Len(models) * Len(loaded_datasets)
              /\ saves = Len(models) * Len(loaded_datasets)
              /\ Cardinality(PairsOf(raw_evaluation_results)) =
                     Len(models) * Len(loaded_datasets)
              /\ Len(file.rows) = Len(models) * Len(loaded_datasets)

\* the 2 x 2 run from the empty store is complete
C2_Witness ==
    /\ pc = "done"
    /\ runStore0 = EmptyStore
    /\ Len(models) = 2
    /\ Len(loaded_datasets) = 2
    /\ evalCalls = 4
    /\ saves = 4

\* C3: when every pair of the cross product exists in the store the run
\* starts from, the run invokes the Evaluator zero times, saves zero times
\* and leaves the persisted file as it was.
C3_IdempotentSkip ==
    (InRun /\ Cross \subseteq PairsOf(runStore0)) =>
        /\ evalCalls = 0
        /\ evaluated = {}
        /\ saves = 0
        /\ file = runFile0

\* a complete 2 x 2 store was run over again: four pairs skipped
C3_Witness ==
    /\ pc = "done"
    /\ Cardinality(Cross) = 4
    /\ Cross \subseteq PairsOf(runStore0)
    /\ evaluation_index = 4
    /\ file.exists

\* C4 as stated: after an Evaluator failure the failing pair is neither in
\* the store nor in the file, no later pair was evaluated, and the file holds
\* exactly the pairs it held when the run started plus the pairs completed
\* before the failure.
C4_AsStated ==
    EvaluatorFailed =>
        /\ Pair(CurrentModel, CurrentDataset) \notin PairsOf(raw_evaluation_results)
        /\ Pair(CurrentModel, CurrentDataset) \notin FilePairs(file)
        /\ evaluated = computed \cup {Pair(CurrentModel, CurrentDataset)}
        /\ computed \subseteq Visited
        /\ FilePairs(file) = FilePairs(runFile0) \cup computed

\* C4: after an Evaluator failure the failing pair is neither in the store
\* nor in the file and no later pair was evaluated; if no pair was completed
\* before the failure the file is as it was when the run started, otherwise
\* it holds exactly the pairs of the store the run started from (after its
\* load step) plus the pairs completed before the failure; every run
\* attempts exactly the pairs it passes that are absent from that store.
C4_AbortOnFailure ==
    /\ EvaluatorFailed =>
        /\ Pair(CurrentModel, CurrentDataset) \notin PairsOf(raw_evaluation_results)
        /\ Pair(CurrentModel, CurrentDataset) \notin FilePairs(file)
        /\ evaluated = computed \cup {Pair(CurrentModel, CurrentDataset)}
        /\ computed \subseteq Visited
        /\ computed = {} => file = runFile0
        /\ computed # {} =>
               /\ file.exists
               /\ FilePairs(file) = PairsOf(runStore0) \cup computed
    /\ (InRun /\ err \in {"none", "execution"}) =>
        /\ computed = Visited \ PairsOf(runStore0)
        /\ (runFile0.exists => PairsOf(runStore0) = FilePairs(runFile0))

\* a run over a file that already held pairs completed a pair and then failed
C4_Witness ==
    /\ EvaluatorFailed
    /\ computed # {}
    /\ FilePairs(runFile0) # {}
    /\ FilePairs(file) # FilePairs(runFile0)

\* the path carries the .csv extension
HasCsvExtension(path) ==
    \E k \in 0..Len(path) : path = SubSeq(path, 1, k) \o <<".", "c", "s", "v">>

MetricColumns ==
    {"accuracy", "accuracy_std", "hamming_loss", "hamming_loss_std",
     "f1", "f1_std"}

Abs(x) == IF x < 0 THEN -x ELSE x

\* C5: round trip: right after a save the table in the file decodes to the
\* store that was saved, and a load that follows a save (load_from_file, or
\* the load step of run) leaves the store exactly as it was saved: same
\* pairs, same values, the empty store included.
C5_RoundTrip ==
    /\ [](lastOp \in {"save_to_file", "run_evaluate"} =>
             /\ file.exists
             /\ flat_table_to_evaluation_results(file.rows) =
                    raw_evaluation_results)
    /\ [][(/\ lastOp \in {"save_to_file", "run_evaluate"}
           /\ lastOp' \in {"load_from_file", "run_start"})
          => raw_evaluation_results' = raw_evaluation_results]_vars

\* a store of several pairs was saved and then loaded from a .csv path
C5_Witness ==
    /\ lastOp = "load_from_file"
    /\ prevOp = "save_to_file"
    /\ err = "none"
    /\ HasCsvExtension(csv_file_path)
    /\ Cardinality(PairsOf(raw_evaluation_results)) >= 2
    /\ FilePairs(file) = PairsOf(raw_evaluation_results)

\* C6 as stated: constructing the Repository on a path whose file is absent
\* does not fail and yields an empty store.
C6_AsStated ==
    (lastOp \in {"construct", "construct_dataset"} /\ ~file.exists) =>
        /\ proc = "up"
        /\ err = "none"
        /\ raw_evaluation_results = EmptyStore

\* C6: constructing the Repository on a path that ends with .csv and whose
\* file is absent does not fail: the store is empty, no pair exists and the
\* warning is logged; on a path without the .csv extension the construction
\* raises the configuration error although the file is absent (unless a
\* dataset is supplied, which skips the load).
C6_ConstructOnAbsentFile ==
    /\ (lastOp = "construct" /\ ~file.exists
            /\ HasCsvExtension(csv_file_path)) =>
        /\ proc = "up"
        /\ err = "none"
        /\ warned
        /\ raw_evaluation_results = EmptyStore
        /\ \A m \in ModelNames, d \in DatasetNames :
               ~ResultAlreadyExists(raw_evaluation_results, m, d)
    /\ (lastOp = "construct" /\ ~file.exists
            /\ ~HasCsvExtension(csv_file_path)) =>
        /\ proc = "down"
        /\ err = "config"
    /\ (lastOp = "construct_dataset") =>
        /\ proc = "up"
        /\ err = "none"
        /\ raw_evaluation_results = EmptyStore

\* the Repository was constructed on an absent .csv file
C6_Witness ==
    /\ lastOp = "construct"
    /\ ~file.exists
    /\ HasCsvExtension(csv_file_path)
    /\ proc = "up"
    /\ warned

\* C7 as stated: whenever the file is missing when a run starts, the run
\* starts from an empty store and evaluates every pair of the cross product,
\* whatever was applied to the Repository before.
C7_AsStated ==
    (InRun /\ ~runFile0.exists /\ err \in {"none", "execution"}) =>
        /\ runStore0 = EmptyStore
        /\ pc = "done" => evaluated = Cross

\* C7: whenever the file is missing when a run starts, the load step of the
\* run raises nothing because of the missing file (it logs the warning), does
\* not touch the file and leaves the store as it was: the run starts from the
\* Repository's in-memory store, which is empty when the Repository was just
\* constructed on the absent file, and a run that completes has evaluated
\* exactly the pairs of the cross product absent from that store.
C7_MissingFileIsSoft ==
    /\ [][(lastOp' = "run_start" /\ nRuns' # nRuns /\ ~file.exists) =>
             /\ raw_evaluation_results' = raw_evaluation_results
             /\ runStore0' = raw_evaluation_results
             /\ file' = file
             /\ err' \in {"none", "config", "not_found"}
             /\ (err' = "config") <=> ~HasCsvExtension(csv_file_path)
             /\ (err' # "config") => warned']_vars
    /\ [](/\ lastOp = "run_start"
          /\ prevOp = "construct"
          /\ ~runFile0.exists
          => runStore0 = EmptyStore)
    /\ []((pc = "done" /\ ~runFile0.exists)
          => evaluated = Cross \ PairsOf(runStore0))

\* a run started on a missing file with a result in memory and completed
C7_Witness ==
    /\ pc = "done"
    /\ ~runFile0.exists
    /\ runStore0 # EmptyStore
    /\ PairsOf(runStore0) \cap Cross # {}
    /\ evaluated # {}

\* C8: load_from_file (called by a client, by the constructor or by run)
\* raises the configuration error exactly when the path does not end with
\* .csv, whether or not the file exists, and raises nothing else; on that
\* error the store and the file are left as they were.
C8_ConfigError ==
    [][(\/ lastOp' = "load_from_file" /\ nOps' # nOps
        \/ lastOp' = "run_start" /\ nRuns' # nRuns
        \/ lastOp' = "construct" /\ proc = "down") =>
          /\ (err' = "config") <=> ~HasCsvExtension(csv_file_path)
          /\ err' \in {"none", "config", "not_found"}
          /\ (err' = "not_found") => lastOp' = "run_start"
          /\ (err' = "config") =>
                /\ raw_evaluation_results' = raw_evaluation_results
                /\ file' = file]_vars

\* load_from_file raised on a path without the extension whose file exists
C8_Witness ==
    /\ lastOp = "load_from_file"
    /\ prevOp = "save_to_file"
    /\ err = "config"
    /\ file.exists
    /\ ~HasCsvExtension(csv_file_path)

\* what add_result(m, d, r) establishes from store S to store T
AddResultPost(S, T, m, d, r) ==
    /\ Pair(m, d) \in PairsOf(T)
    /\ ValueOf(T, m, d) = r
    /\ PairsOf(T) = PairsOf(S) \cup {Pair(m, d)}
    /\ \A q \in PairsOf(S) \ {Pair(m, d)} :
           ValueOf(T, q[1], q[2]) = ValueOf(S, q[1], q[2])
    /\ \A q \in PairsOf(T) : Occurrences(T, q[1], q[2]) = 1

\* C9: add_result(m, d, r), called by a client or by run, inserts or
\* overwrites: afterwards the store maps (m, d) to r and every other pair
\* keeps its value; in every state each pair occurs at most once in the store.
C9_AddResult ==
    /\ [](\A m \in ModelNames, d \in DatasetNames :
             Occurrences(raw_evaluation_results, m, d) <= 1)
    /\ [][/\ (lastOp' = "add_result" /\ nOps' # nOps) =>
                \A m \in ModelNames, d \in DatasetNames, r \in ClientResults :
                    OpAddResult(m, d, r) =>
                        AddResultPost(raw_evaluation_results,
                                      raw_evaluation_results', m, d, r)
          /\ (lastOp' = "run_evaluate" /\ evalCalls' # evalCalls) =>
                \A r \in EvaluatorResults :
                    RunEvaluate(r) =>
                        AddResultPost(raw_evaluation_results,
                                      raw_evaluation_results',
                                      CurrentModel, CurrentDataset, r)]_vars

\* two add_result calls on an empty store left two pairs of one model
C9_Witness ==
    /\ lastOp = "add_result"
    /\ prevOp = "add_result"
    /\ nRuns = 0
    /\ Len(raw_evaluation_results) = 1
    /\ Cardinality(PairsOf(raw_evaluation_results)) = 2

\* C10: describe_dict changes neither the store nor the file; it returns
\* one row per pair, every metric of which is the stored value rounded to 4
\* decimal places; a save_to_file that follows it writes the unrounded values
\* of the store.
C10_DescribeIsPure ==
    [][/\ (lastOp' = "describe_dict" /\ nOps' # nOps) =>
             /\ raw_evaluation_results' = raw_evaluation_results
             /\ file' = file
             /\ Len(described') =
                    Cardinality(PairsOf(raw_evaluation_results))
             /\ \A k \in 1..Len(described') :
                    LET row == described'[k]
                        v == DescribeJson(ValueOf(raw_evaluation_results,
                                                  row.model, row.dataset))
                    IN \A c \in MetricColumns :
                           /\ row[c] % 100 = 0
                           /\ Abs(row[c] - v[c]) <= 50
       /\ (lastOp = "describe_dict" /\ lastOp' = "save_to_file") =>
             /\ Len(file'.rows) =
                    Cardinality(PairsOf(raw_evaluation_results))
             /\ \A k \in 1..Len(file'.rows) :
                    LET row == file'.rows[k]
                    IN ResultOfRow(row) =
                           ValueOf(raw_evaluation_results,
                                   row.model, row.dataset)]_vars

\* a store holding a value with more than 4 decimals was described, then saved
C10_Witness ==
    /\ lastOp = "save_to_file"
    /\ prevOp = "describe_dict"
    /\ Len(file.rows) >= 1
    /\ \E k \in 1..Len(file.rows) : file.rows[k].accuracy % 100 # 0

\* ------------------------------------------------------- DatasetsLoader
\* dataset identifiers, as the character strings load tests with endswith
Birds == <<"b", "i", "r", "d", "s">>
Ariane == <<"a", ".", "a", "r", "f", "f">>
UnknownCorpus == <<"n", "o">>
MissingArff == <<"x", ".", "a", "r", "f", "f">>
Identifiers == {Birds, Ariane, UnknownCorpus, MissingArff}

\* the dataset_names a loader is constructed with
NameConfigs ==
    {<<>>} \cup {<<a>> : a \in Identifiers}
           \cup {<<p[1], p[2]>> :
                     p \in {q \in Identifiers \X Identifiers : q[1] # q[2]}}

ArffSuffix == <<".", "a", "r", "f", "f">>

\* the number of label columns load passes to load_from_arff
ArffLabelCount == 5

None == [none |-> TRUE]

\* the Dataset Source, named corpus: X and y of a known name, None otherwise;
\* feature values in thousandths
load_dataset(name) ==
    IF name = Birds
    THEN [X |-> << <<2000, 0, -500>>, <<-4000, 0, 250>> >>,
          y |-> << <<1, 0>>, <<0, 1>> >>]
    ELSE None

\* the rows of the attribute file, features first and labels last
ArffRows ==
    << <<3000, -1000, 1, 0, 0, 1, 0>>,
       <<1500, 2000, 0, 0, 1, 0, 0>>,
       <<0, -500, 1, 1, 0, 0, 1>> >>

\* the Dataset Source, attribute file: the last label_count columns are y
load_from_arff(name, label_count) ==
    IF name = Ariane
    THEN [X |-> [i \in 1..Len(ArffRows) |->
                    SubSeq(ArffRows[i], 1, Len(ArffRows[i]) - label_count)],
          y |-> [i \in 1..Len(ArffRows) |->
                    SubSeq(ArffRows[i], Len(ArffRows[i]) - label_count + 1,
                           Len(ArffRows[i]))]]
    ELSE None

RECURSIVE MaxAbsOf(_, _, _)
\* the largest absolute value of column j in the first n rows of X
MaxAbsOf(X, j, n) ==
    IF n = 0 THEN 0
    ELSE LET rest == MaxAbsOf(X, j, n - 1)
         IN  IF Abs(X[n][j]) > rest THEN Abs(X[n][j]) ELSE rest

\* MaxAbsScaler().fit_transform(X): every column divided by its largest
\* absolute value, a column of zeros left as it is
MaxAbsScale(X) ==
    [i \in 1..Len(X) |->
        [j \in 1..Len(X[i]) |->
            LET m == MaxAbsOf(X, j, Len(X))
            IN  IF m = 0 THEN X[i][j]
                ELSE IF X[i][j] < 0 THEN 0 - ((Abs(X[i][j]) * 1000) \div m)
                ELSE (X[i][j] * 1000) \div m]]

\* the dictionary entry load records for a dataset
DatasetInfo(name, X, y) ==
    [name |-> name, X |-> X, y |-> y, rows |-> Len(X),
     features_count |-> Len(X[1]), labels_count |-> Len(y[1])]

\* loaded_datasets[name] = info on an insertion-ordered dictionary
DictPut(D, info) ==
    IF \E k \in 1..Len(D) : D[k].name = info.name
    THEN [k \in 1..Len(D) |-> IF D[k].name = info.name THEN info ELSE D[k]]
    ELSE Append(D, info)

RECURSIVE LoadNames(_, _, _, _)
\* the loop of load from dataset_names[k] on, acc being loaded_datasets so
\* far: the plain loader scales attribute files only, the normalized one
\* scales every dataset; the first unresolvable dataset raises
LoadNames(normalized, names, k, acc) ==
    IF k > Len(names) THEN [err |-> "none", loaded_datasets |-> acc]
    ELSE IF EndsWith(names[k], ArffSuffix)
    THEN LET full == load_from_arff(names[k], ArffLabelCount)
         IN  IF full = None
             THEN [err |-> "not_found", loaded_datasets |-> acc]
             ELSE LoadNames(normalized, names, k + 1,
                      DictPut(acc, DatasetInfo(names[k], MaxAbsScale(full.X),
                                               full.y)))
    ELSE LET full == load_dataset(names[k])
         IN  IF full = None
             THEN [err |-> "not_found", loaded_datasets |-> acc]
             ELSE LoadNames(normalized, names, k + 1,
                      DictPut(acc, DatasetInfo(names[k],
                                   IF normalized THEN MaxAbsScale(full.X)
                                   ELSE full.X,
                                   full.y)))

\* DatasetsLoader.load and DatasetsLoaderNormalized.load
Load(normalized, names) == LoadNames(normalized, names, 1, <<>>)

\* list_datasets without the guard: an empty dictionary is returned
ListDatasets_NoGuard(loaded) == [err |-> "none", ret |-> loaded]

\* list_datasets: raises on an empty dictionary, returns it otherwise
ListDatasets(loaded) ==
    IF Len(loaded) = 0 THEN [err |-> "not_found", ret |-> <<>>]
    ELSE [err |-> "none", ret |-> loaded]

\* describe_json: name and counts of every loaded dataset
CatalogDescribeJson(loaded) ==
    [k \in 1..Len(loaded) |->
        [dataset |-> loaded[k].name, rows |-> loaded[k].rows,
         features_count |-> loaded[k].features_count,
         labels_count |-> loaded[k].labels_count]]

Kinds == {"plain", "normalized"}

\* a loader right after __init__
NewLoader ==
    [loaded_datasets |-> <<>>, loadCalled |-> FALSE, loadErr |-> "none"]

\* what a catalog step leaves alone: the whole sequential pipeline and the
\* concurrent one
pipelineVars ==
    <<proc, csv_file_path, raw_evaluation_results, file, models,
      loaded_datasets, pc, mi, di, evaluation_index, err, warned, described,
      lastOp, prevOp, runFile0, runStore0, evaluated, computed, evalCalls,
      saves, nRuns, nOps, removed>>

\* DatasetsLoader(names) and DatasetsLoaderNormalized(names), built on the
\* same dataset_names
CatalogConstruct(names) ==
    /\ ~catalog.built
    /\ catalog' = [names |-> names, built |-> TRUE,
                   loader |-> [kd \in Kinds |-> NewLoader],
                   op |-> "init", kind |-> "plain", err |-> "none",
                   ret |-> <<>>]
    /\ UNCHANGED <<pipelineVars, writers, lastSaver>>

\* loader.load() on one of the two loaders
CatalogLoad(kd) ==
    /\ catalog.built
    /\ LET res == Load(kd = "normalized", catalog.names)
       IN  catalog' = [catalog EXCEPT
               !.loader[kd] = [loaded_datasets |-> res.loaded_datasets,
                               loadCalled |-> TRUE, loadErr |-> res.err],
               !.op = "load", !.kind = kd, !.err = res.err, !.ret = <<>>]
    /\ UNCHANGED <<pipelineVars, writers, lastSaver>>

\* loader.list_datasets() on one of the two loaders
CatalogListDatasets(kd) ==
    /\ catalog.built
    /\ LET res == ListDatasets(catalog.loader[kd].loaded_datasets)
       IN  catalog' = [catalog EXCEPT
               !.op = "list_datasets", !.kind = kd, !.err = res.err,
               !.ret = res.ret]
    /\ UNCHANGED <<pipelineVars, writers, lastSaver>>

\* loader.describe_json() on one of the two loaders
CatalogDescribe(kd) ==
    /\ catalog.built
    /\ catalog' = [catalog EXCEPT
           !.op = "describe_json", !.kind = kd, !.err = "none",
           !.ret = CatalogDescribeJson(catalog.loader[kd].loaded_datasets)]
    /\ UNCHANGED <<pipelineVars, writers, lastSaver>>

CatalogInit == Init /\ csv_file_path = CsvPath

CatalogNext ==
    \/ \E names \in NameConfigs : CatalogConstruct(names)
    \/ \E kd \in Kinds : CatalogLoad(kd)
    \/ \E kd \in Kinds : CatalogListDatasets(kd)
    \/ \E kd \in Kinds : CatalogDescribe(kd)

CatalogSpec == CatalogInit /\ [][CatalogNext]_vars

\* C11: list_datasets on a loader whose load was never called raises the
\* not-found condition and hands back nothing, whatever dataset_names the
\* loader was built with and whichever variant it is
C11_PreLoadGuard ==
    (/\ catalog.built
     /\ catalog.op = "list_datasets"
     /\ ~catalog.loader[catalog.kind].loadCalled)
        => /\ catalog.err = "not_found"
           /\ catalog.ret = <<>>

C11_Witness ==
    /\ catalog.built
    /\ catalog.op = "list_datasets"
    /\ catalog.kind = "normalized"
    /\ ~catalog.loader["normalized"].loadCalled
    /\ catalog.loader["plain"].loadCalled
    /\ Len(catalog.loader["plain"].loaded_datasets) = 2
    /\ catalog.err = "not_found"

\* what the Dataset Source holds for an identifier
SourceOf(name) ==
    IF EndsWith(name, ArffSuffix) THEN load_from_arff(name, ArffLabelCount)
    ELSE load_dataset(name)

BothLoaded ==
    /\ catalog.built
    /\ catalog.loader["plain"].loadCalled
    /\ catalog.loader["normalized"].loadCalled

\* name and counts of every entry, in order: what the two variants are to
\* agree on
NamesAndCounts(loaded) ==
    [k \in 1..Len(loaded) |->
        <<loaded[k].name, loaded[k].rows, loaded[k].features_count,
          loaded[k].labels_count>>]

\* C12: the two variants built on the same dataset_names differ in scaling
\* only: once both have loaded, they stopped with the same outcome and
\* recorded the same names and counts and the same labels, and for every
\* recorded dataset, corpus or attribute file, the normalized loader holds
\* the scaled matrix and the plain loader the matrix of the source as it is.
\* The code breaks the last part on attribute files.
C12_AsStated ==
    BothLoaded =>
        LET P == catalog.loader["plain"]
            N == catalog.loader["normalized"]
        IN  /\ P.loadErr = N.loadErr
            /\ NamesAndCounts(P.loaded_datasets)
                   = NamesAndCounts(N.loaded_datasets)
            /\ \A k \in 1..Len(N.loaded_datasets) :
                   /\ N.loaded_datasets[k].y = P.loaded_datasets[k].y
                   /\ N.loaded_datasets[k].X
                          = MaxAbsScale(SourceOf(N.loaded_datasets[k].name).X)
                   /\ P.loaded_datasets[k].X
                          = SourceOf(P.loaded_datasets[k].name).X

\* what the code does instead: all of the above, except that on an
\* attribute file the plain loader holds the scaled matrix too
C12_PlainScalesAttributeFiles ==
    BothLoaded =>
        LET P == catalog.loader["plain"]
            N == catalog.loader["normalized"]
        IN  /\ P.loadErr = N.loadErr
            /\ NamesAndCounts(P.loaded_datasets)
                   = NamesAndCounts(N.loaded_datasets)
            /\ \A k \in 1..Len(N.loaded_datasets) :
                   LET name == N.loaded_datasets[k].name
                   IN  /\ N.loaded_datasets[k].y = P.loaded_datasets[k].y
                       /\ N.loaded_datasets[k].X
                              = MaxAbsScale(SourceOf(name).X)
                       /\ P.loaded_datasets[k].X
                              = IF EndsWith(name, ArffSuffix)
                                THEN MaxAbsScale(SourceOf(name).X)
                                ELSE SourceOf(name).X
                       /\ MaxAbsScale(SourceOf(name).X) # SourceOf(name).X

\* both variants loaded a corpus and an attribute file
C12_Reached ==
    /\ BothLoaded
    /\ catalog.names = <<Birds, Ariane>>
    /\ Len(catalog.loader["plain"].loaded_datasets) = 2
    /\ catalog.loader["plain"].loaded_datasets[2].X
           = catalog.loader["normalized"].loaded_datasets[2].X
    /\ catalog.loader["plain"].loaded_datasets[1].X
           # catalog.loader["normalized"].loaded_datasets[1].X

\* ------------------------------------------------- outcomes of a run
\* the run is over
RunOver == pc \in {"done", "aborted"}

\* C13 as stated: a run that is over either went through the whole cross
\* product or was aborted by a failure of the Evaluator, whatever the models
\* and the datasets are, none at all included.
C13_AsStated ==
    RunOver =>
        \/ pc = "done" /\ err = "none" /\ Visited = Cross
        \/ EvaluatorFailed

\* C13: a run ends in one of three ways. It completes: every pair of the
\* cross product was passed and is in the store (at once when there is no
\* model). Or it aborts on the first failure of the Evaluator, at the pair
\* that failed. Or it aborts before the loop, with nothing evaluated and the
\* file untouched: on the configuration error of its load step, or on the
\* not-found error of the catalog, which an empty dataset collection and an
\* unresolvable dataset both raise. The loop ends: every step of it passes
\* one more of the finitely many pairs.
C13_RunOutcomes ==
    /\ [](RunOver =>
            \/ /\ pc = "done"
               /\ err = "none"
               /\ Visited = Cross
               /\ Cross \subseteq PairsOf(raw_evaluation_results)
               /\ evaluation_index = Len(models) * Len(loaded_datasets)
            \/ /\ EvaluatorFailed
               /\ evaluated = computed \cup {Pair(CurrentModel, CurrentDataset)}
               /\ evaluation_index
                      = (mi - 1) * Len(loaded_datasets) + di
            \/ /\ pc = "aborted"
               /\ err \in {"config", "not_found"}
               /\ lastOp = "run_start"
               /\ evaluated = {}
               /\ evaluation_index = 0
               /\ file = runFile0
               /\ err = "config" <=> ~HasCsvExtension(csv_file_path))
    /\ []((lastOp = "run_start" /\ err # "config") =>
            /\ Len(loaded_datasets) = 0 => pc = "aborted" /\ err = "not_found"
            /\ (err = "none" /\ Len(models) = 0) => pc = "done")
    /\ [](pc = "loop" =>
            evaluation_index < Len(models) * Len(loaded_datasets))
    /\ [][(pc = "loop" /\ proc' = "up") =>
            \/ evaluation_index' = evaluation_index + 1
            \/ UNCHANGED vars]_vars

\* a run over two models and no dataset was aborted by the catalog
C13_Witness ==
    /\ pc = "aborted"
    /\ err = "not_found"
    /\ models = <<"A", "B">>
    /\ loaded_datasets = <<>>
    /\ HasCsvExtension(csv_file_path)
    /\ file.exists

\* ------------------------------------------------- order inside a run
\* the table of the file, decoded
Persisted(f) == flat_table_to_evaluation_results(f.rows)

\* a step of the loop of run
LoopStep == pc = "loop" /\ evaluation_index' = evaluation_index + 1

\* C14: the loop goes through the pairs model by model, and for each model
\* dataset by dataset in the order of the catalog; a pair that is not in
\* the store is evaluated, registered with the value the Evaluator returned
\* and saved, all before the next pair is looked at; so at every existence
\* check each pair this run computed is in the store and in the file, with
\* the same value.
C14_OrderedIncrementalSave ==
    /\ [](pc = "loop" =>
            /\ evaluation_index = (mi - 1) * Len(loaded_datasets) + (di - 1)
            /\ computed \subseteq PairsOf(raw_evaluation_results)
            /\ file.exists => computed \subseteq FilePairs(file)
            /\ computed # {} =>
                   /\ file.exists
                   /\ \A pr \in computed :
                          /\ pr \in FilePairs(file)
                          /\ ValueOf(Persisted(file), pr[1], pr[2])
                                 = ValueOf(raw_evaluation_results, pr[1],
                                           pr[2]))
    /\ [][LoopStep =>
            /\ evaluated' \subseteq
                   evaluated \cup {Pair(CurrentModel, CurrentDataset)}
            /\ pc' = "loop" =>
                   /\ models' = models
                   /\ loaded_datasets' = loaded_datasets
                   /\ <<mi', di'>> = IF di < Len(loaded_datasets)
                                     THEN <<mi, di + 1>>
                                     ELSE <<mi + 1, 1>>
            /\ pc' = "done" =>
                   mi = Len(models) /\ di = Len(loaded_datasets)
            /\ computed' # computed =>
                   /\ computed' =
                          computed \cup {Pair(CurrentModel, CurrentDataset)}
                   /\ evalCalls' = evalCalls + 1
                   /\ saves' = saves + 1
                   /\ Pair(CurrentModel, CurrentDataset)
                          \in PairsOf(raw_evaluation_results')
                   /\ Persisted(file') = raw_evaluation_results']_vars

\* the run is at the existence check of its last pair, having computed and
\* saved the three before it
C14_Witness ==
    /\ pc = "loop"
    /\ mi = 2
    /\ di = 2
    /\ evaluation_index = 3
    /\ Cardinality(computed) = 3
    /\ computed \subseteq FilePairs(file)
    /\ saves = 3

\* ------------------------------------------------- save_to_file
\* the step wrote the file: save_to_file called by a client or by the loop
SaveStep ==
    \/ lastOp' = "save_to_file" /\ nOps' # nOps
    \/ lastOp' = "run_evaluate" /\ saves' # saves

\* C15: every save rewrites the whole file from the store: right after it
\* the file exists and decodes to exactly the store as it is then, with one
\* row per pair of the store and no other row; the rows the file held for
\* pairs the store does not hold are gone.
C15_WholeFileRewrite ==
    [][SaveStep =>
        /\ file'.exists
        /\ Persisted(file') = raw_evaluation_results'
        /\ FilePairs(file') = PairsOf(raw_evaluation_results')
        /\ Len(file'.rows) = Cardinality(PairsOf(raw_evaluation_results'))
        /\ \A k \in 1..Len(file'.rows) :
               ResultOfRow(file'.rows[k])
                   = ValueOf(raw_evaluation_results', file'.rows[k].model,
                             file'.rows[k].dataset)
        /\ removed' = FilePairs(file) \ PairsOf(raw_evaluation_results')
        /\ removed' \cap FilePairs(file') = {}]_vars

\* a save by a Repository built without loading took rows out of a file
\* that an earlier run had written
C15_Witness ==
    /\ lastOp = "save_to_file"
    /\ removed # {}
    /\ file.exists
    /\ removed \cap FilePairs(file) = {}
    /\ FilePairs(file) = PairsOf(raw_evaluation_results)

\* ------------------------------------------------- who changes the store
\* a step of a Repository that exists before it and after it
RepositoryStep == proc = "up" /\ proc' = "up"

\* C16 as stated: once the Repository is constructed only add_result (called
\* by a client or by the loop of run) changes the store: no load, save,
\* existence check or describe does, nor the load step of run.
C16_AsStated ==
    [][(RepositoryStep /\ raw_evaluation_results' # raw_evaluation_results)
           => lastOp' \in {"add_result", "run_evaluate"}]_vars

\* C16: once the Repository is constructed the store is changed by
\* add_result and by load_from_file only (called by a client or as the load
\* step of run). A load on a .csv path whose file exists replaces the store
\* by the table of the file, so a result added and not saved is lost; a load
\* on a missing file or on another path leaves the store as it is. Saving,
\* describing, skipping a pair and a failing Evaluator leave it as it is.
C16_StoreMutators ==
    [][RepositoryStep =>
        /\ raw_evaluation_results' # raw_evaluation_results =>
               lastOp' \in {"add_result", "run_evaluate", "load_from_file",
                            "run_start"}
        /\ lastOp' \in {"load_from_file", "run_start"} =>
               raw_evaluation_results' =
                   IF HasCsvExtension(csv_file_path) /\ file.exists
                   THEN Persisted(file)
                   ELSE raw_evaluation_results
        /\ lastOp' \in {"add_result", "run_evaluate"} =>
               /\ PairsOf(raw_evaluation_results)
                      \subseteq PairsOf(raw_evaluation_results')
               /\ Cardinality(PairsOf(raw_evaluation_results'))
                      <= Cardinality(PairsOf(raw_evaluation_results)) + 1]_vars

\* a client added a result, did not save, and loaded: the store is the table
\* of the file again, which holds no value a client passed
C16_Witness ==
    /\ lastOp = "load_from_file"
    /\ prevOp = "add_result"
    /\ err = "none"
    /\ file.exists
    /\ raw_evaluation_results = Persisted(file)
    /\ raw_evaluation_results # EmptyStore
    /\ \A pr \in PairsOf(raw_evaluation_results) :
           ValueOf(raw_evaluation_results, pr[1], pr[2]) \notin ClientResults

\* ------------------------------------------- two pipelines, one file
\* the cross product of each pipeline, in the order its loop goes through
\* it: one model each, the same datasets, hence disjoint pairs
WriterPairs(w) ==
    IF w = 1 THEN <<Pair("A", "D1"), Pair("A", "D2")>>
    ELSE <<Pair("B", "D1"), Pair("B", "D2")>>

\* what a step of these pipelines leaves alone
sequentialVars ==
    <<proc, csv_file_path, raw_evaluation_results, models, loaded_datasets,
      pc, mi, di, evaluation_index, err, warned, described, lastOp, prevOp,
      runFile0, runStore0, evaluated, computed, evalCalls, saves, nRuns,
      nOps, removed, catalog>>

\* the position after the pair at k
WriterAdvance(w) ==
    IF writers[w].k < Len(WriterPairs(w)) THEN "loop" ELSE "done"

\* a process builds its own Repository and calls run, which loads the file:
\* the store is the table of the file as it is now, empty if there is none
\* (the load of __init__ reads the same file or an older one and is
\* superseded by the load of run)
WriterStart(w) ==
    /\ writers[w].pc # "loop"
    /\ writers[w].runs < MaxRuns
    /\ writers' = [writers EXCEPT
           ![w] = [pc |-> "loop",
                   store |-> LoadFromFile(csv_file_path, file,
                                          EmptyStore).store,
                   k |-> 1,
                   saved |-> {},
                   runs |-> writers[w].runs + 1]]
    /\ UNCHANGED <<sequentialVars, file, lastSaver>>

\* the pair at k is in the store of this pipeline: skipped
WriterSkip(w) ==
    /\ writers[w].pc = "loop"
    /\ LET pr == WriterPairs(w)[writers[w].k]
       IN  /\ ResultAlreadyExists(writers[w].store, pr[1], pr[2])
           /\ writers' = [writers EXCEPT
                  ![w].pc = WriterAdvance(w),
                  ![w].k = IF WriterAdvance(w) = "loop" THEN @ + 1 ELSE @]
    /\ UNCHANGED <<sequentialVars, file, lastSaver>>

\* the loop body reading the file again before it registers and saves
WriterEvaluate_ReloadsBeforeSave(w, r) ==
    /\ writers[w].pc = "loop"
    /\ LET pr == WriterPairs(w)[writers[w].k]
           S == AddResultTo(LoadFromFile(csv_file_path, file,
                                         writers[w].store).store,
                            pr[1], pr[2], r)
       IN  /\ ~ResultAlreadyExists(writers[w].store, pr[1], pr[2])
           /\ writers' = [writers EXCEPT
                  ![w].store = S,
                  ![w].saved = @ \cup {pr},
                  ![w].pc = WriterAdvance(w),
                  ![w].k = IF WriterAdvance(w) = "loop" THEN @ + 1 ELSE @]
           /\ file' = SaveToFile(S)
    /\ lastSaver' = w
    /\ UNCHANGED sequentialVars

\* the pair at k is not in the store of this pipeline: evaluated, registered
\* and saved over the file, whatever another pipeline wrote there meanwhile
WriterEvaluate(w, r) ==
    /\ writers[w].pc = "loop"
    /\ LET pr == WriterPairs(w)[writers[w].k]
           S == AddResultTo(writers[w].store, pr[1], pr[2], r)
       IN  /\ ~ResultAlreadyExists(writers[w].store, pr[1], pr[2])
           /\ writers' = [writers EXCEPT
                  ![w].store = S,
                  ![w].saved = @ \cup {pr},
                  ![w].pc = WriterAdvance(w),
                  ![w].k = IF WriterAdvance(w) = "loop" THEN @ + 1 ELSE @]
           /\ file' = SaveToFile(S)
    /\ lastSaver' = w
    /\ UNCHANGED sequentialVars

\* the Evaluator raises at the pair at k: this pipeline is over
WriterEvaluateFails(w) ==
    /\ writers[w].pc = "loop"
    /\ LET pr == WriterPairs(w)[writers[w].k]
       IN  ~ResultAlreadyExists(writers[w].store, pr[1], pr[2])
    /\ writers' = [writers EXCEPT ![w].pc = "aborted"]
    /\ UNCHANGED <<sequentialVars, file, lastSaver>>

ConcurrentInit == Init /\ csv_file_path = CsvPath

ConcurrentNext ==
    \/ \E w \in Writers : WriterStart(w)
    \/ \E w \in Writers : WriterSkip(w)
    \/ \E w \in Writers, r \in EvaluatorResults : WriterEvaluate(w, r)
    \/ \E w \in Writers : WriterEvaluateFails(w)

ConcurrentSpec == ConcurrentInit /\ [][ConcurrentNext]_vars

\* C17: two pipelines, each with its own Repository, run side by side on
\* one file over disjoint pairs. Every save puts the store of the pipeline
\* that saves in the place of the file: the file is always the table of the
\* pipeline that saved last, and a save takes out of the file exactly the
\* pairs its pipeline had not loaded. Hence the state of the witness is
\* reached: both pipelines are done and the file lacks a pair that one of
\* them evaluated and saved.
C17_LastSaverWins ==
    /\ [](lastSaver # 0 =>
            /\ file.exists
            /\ Persisted(file) = writers[lastSaver].store)
    /\ [](\A w \in Writers :
            writers[w].saved \subseteq PairsOf(writers[w].store))
    /\ [][\A w \in Writers :
            (lastSaver' = w /\ writers'[w].saved # writers[w].saved) =>
                /\ FilePairs(file') = PairsOf(writers'[w].store)
                /\ FilePairs(file) \ FilePairs(file')
                       = FilePairs(file) \ PairsOf(writers[w].store)]_vars

\* both pipelines completed in their first run and the file lacks a pair the
\* first one evaluated and saved
C17_Witness ==
    /\ \A w \in Writers : writers[w].pc = "done" /\ writers[w].runs = 1
    /\ lastSaver = 2
    /\ writers[1].saved = {Pair("A", "D1"), Pair("A", "D2")}
    /\ writers[1].saved \ FilePairs(file) # {}

\* ------------------------------------------------- a completed run
\* C18 as stated: when a run has completed, every pair of its cross product
\* is in the store and in the file, whatever the store and the file were
\* when the run was called.
C18_AsStated ==
    pc = "done" =>
        /\ Cross \subseteq PairsOf(raw_evaluation_results)
        /\ Cross \subseteq FilePairs(file)

\* C18: when a run has completed, every pair of its cross product is in the
\* store. If the file existed when the run was called, or the run computed a
\* pair, the file exists and is the table of the store, so every pair is in
\* the file too. If the file did not exist and the run skipped every pair
\* (all were in the store unsaved, or there was no model), the run wrote
\* nothing and there is still no file.
C18_CompletedRun ==
    pc = "done" =>
        /\ Cross \subseteq PairsOf(raw_evaluation_results)
        /\ (runFile0.exists \/ computed # {}) =>
               /\ file.exists
               /\ Cross \subseteq FilePairs(file)
               /\ Persisted(file) = raw_evaluation_results
        /\ (~runFile0.exists /\ computed = {}) =>
               /\ ~file.exists
               /\ saves = 0
               /\ Cross \subseteq PairsOf(runStore0)

\* a run over results that were added and never saved completed without
\* writing the file
C18_Witness ==
    /\ pc = "done"
    /\ Cross # {}
    /\ computed = {}
    /\ ~file.exists
    /\ Cross \subseteq PairsOf(raw_evaluation_results)

\* ------------------------------------------------- runs one after another
\* processes that only construct the Repository and run the pipeline, one
\* at a time, the Evaluator returning any result
RunsNext ==
    \/ \E withDataset \in BOOLEAN : Construct(withDataset)
    \/ Exit
    \/ \E ms \in ModelConfigs, ds \in DatasetConfigs : RunStart(ms, ds)
    \/ RunSkip
    \/ \E r \in Results : RunEvaluate(r)
    \/ RunEvaluateFails

RunsSpec == Init /\ [][RunsNext]_vars

\* C19: over runs one after another on the same file, completed or aborted,
\* by one process or several, with any models and datasets, a file that
\* exists goes on existing, every pair it holds stays in it, and the value
\* it holds for a pair stays the same.
C19_FileOnlyGrows ==
    [][file.exists =>
        /\ file'.exists
        /\ FilePairs(file) \subseteq FilePairs(file')
        /\ \A pr \in FilePairs(file) :
               ValueOf(Persisted(file'), pr[1], pr[2])
                   = ValueOf(Persisted(file), pr[1], pr[2])]_vars

\* a second run, over other models, completed after adding pairs to those
\* the first run had written, and the file holds two different values
C19_Witness ==
    /\ pc = "done"
    /\ nRuns = 2
    /\ FilePairs(runFile0) # {}
    /\ computed # {}
    /\ FilePairs(file) = FilePairs(runFile0) \cup computed
    /\ \E p1 \in FilePairs(runFile0), p2 \in computed :
           ValueOf(Persisted(file), p1[1], p1[2])
               # ValueOf(Persisted(file), p2[1], p2[2])

====
